---- MODULE Spec2Model ----
(***************************************************************************)
(* The two pipelines of ace-grader-hub and the rows they read and write.   *)
(*                                                                         *)
(* Grading: the grade-submission edge function                             *)
(* (supabase/functions/grade-submission/index.ts) and the two clients that *)
(* invoke it (PaperUpload.handleUpload, fire and forget, and               *)
(* RetryGradingButton.handleRetry).                                        *)
(*                                                                         *)
(* Criteria extraction: the process-rubric edge function                   *)
(* (supabase/functions/process-rubric/index.ts), its client                *)
(* RubricUpload.handleUpload, and the rate limiter check_rate_limit        *)
(* (migration 20251222111613) it calls.                                    *)
(*                                                                         *)
(* Text values whose content the handlers never inspect (rationale,        *)
(* evidence, strengths, improvements, names, descriptions) are represented *)
(* by their length, the only thing the zod schemas look at.  Scores and    *)
(* weights are integers.  A JavaScript number that is a quotient is kept   *)
(* as an exact fraction [num, den].                                        *)
(***************************************************************************)
EXTENDS Integers, Sequences, FiniteSets, Bags, TLC

\* ------------------------------------------------------------------ bounds
MaxInv == 2     \* invocations of the grade-submission handler in one behaviour
MaxChecks == 12 \* check_rate_limit calls issued in one behaviour
MaxMinute == 2  \* minutes the database clock runs through
MaxRub == 2     \* invocations of the process-rubric handler in one behaviour
MaxSys == 2     \* invocations of both handlers when they run side by side

\* ------------------------------------------------------- program constants
MAX_FILE_SIZE == 10485760
MinExtractedLen == 50
ScoreMax == 100
CriterionIdMax == 100
RationaleMax == 2000
EvidenceItemMax == 500
EvidenceMax == 10
CriteriaScoresMax == 50
FeedbackItemMax == 500
FeedbackMax == 10
NumericLimit == 100000   \* DECIMAL(5,2): |value| < 10^3, kept in hundredths
MaxRequests == 10        \* p_max_requests of the process-rubric rate limit
RubricMaxFileSize == 5242880   \* MAX_FILE_SIZE of process-rubric
MinRubricText == 20
MaxRubricText == 100000
RubricIdMax == 100
NameMax == 200
DescriptionMax == 1000
WeightMax == 100
CategoryMax == 100
CriteriaMax == 50

Users == {"u1", "u2"}
NoAuth == "anonymous"            \* a request without Authorization header
Uploaders == {"u1"}              \* the teacher who uploads papers
Papers == {"essay"}              \* the files she selects in the upload dialog
SubIds == Papers                 \* a submission is identified by its paper

Confidence == {"low", "medium", "high"}

Terminal == {"graded", "error"}

\* ------------------------------------------------------------ stored rows
\* a criterion as process-rubric stores it; name, description and category
\* are kept as their lengths
Crit(id, w) ==
    [id |-> id, name |-> 20, description |-> 100, weight |-> w, category |-> 10]

\* an object of a storage bucket: `${user.id}/${uuid}.${fileExt}`
Path(folder, name, ext) == [folder |-> folder, name |-> name, ext |-> ext]

\* the teacher's rubric r1 and another user's rubric r2
RubricRows ==
    [r1 |-> [user_id |-> "u1", file_path |-> Path("u1", "r1", ".txt"),
             criteria |-> <<Crit("c1", 10), Crit("c2", 20), Crit("c3", 30)>>],
     r2 |-> [user_id |-> "u2", file_path |-> Path("u2", "r2", ".pdf"),
             criteria |-> <<Crit("d1", 50)>>]]

\* focus_profiles: pAll selects every criterion of r1, pStale only an id that
\* r1 no longer holds, pOther is another user's
FocusProfileRows ==
    [pAll   |-> [user_id |-> "u1", rubric_id |-> "r1", is_default |-> FALSE,
                 selected_criteria |-> {"c1", "c2", "c3"}],
     pStale |-> [user_id |-> "u1", rubric_id |-> "r1", is_default |-> FALSE,
                 selected_criteria |-> {"c9"}],
     pOther |-> [user_id |-> "u2", rubric_id |-> "r2", is_default |-> FALSE,
                 selected_criteria |-> {"d1"}]]

ProfileIds == DOMAIN FocusProfileRows

\* a rubric id that no row has
NoRubric == "r0"

\* the rubrics the teacher uploads, and the extensions of their files
NewRubrics == {"r3"}
UploadExts == {".docx", ".text"}

\* the extension of an uploaded file (the end of file_path)
FileExts == {".txt", ".pdf"}

\* metadata.size as storage.list reports it
ListedSizes == {MAX_FILE_SIZE, MAX_FILE_SIZE + 1}

VARIABLES
    submissions,     \* table submissions: id -> row, for the rows created so far
    results,         \* table results: a bag of rows (no uniqueness on submission_id)
    rubrics,         \* table rubrics
    focus_profiles,  \* table focus_profiles
    inv,             \* the handler invocations: a bag of <position, local variables>
    rate_limits,     \* table rate_limits: <<user_id, endpoint, window_minute>> -> request_count
    now,             \* the current minute of the database clock
    rpc,             \* check_rate_limit calls issued and not yet executed, per user
    returned,        \* what the executed check_rate_limit calls returned: a bag
    rubricInv,       \* the process-rubric invocations: a bag, as inv
    faulty,          \* whether the database may fail a write of submissions.status
    submissionText,  \* the text of a submission, as a sequence of characters
    maxLength,       \* the bound the text is truncated to
    processedText,   \* the text after the truncations applied so far
    pass             \* how many times the truncation was applied

\* the state of the rate limiter
limits == <<rate_limits, now, rpc, returned>>

\* the state of the truncation of a submission's text
texts == <<submissionText, maxLength, processedText, pass>>

vars == <<submissions, results, rubrics, focus_profiles, inv, limits, rubricInv,
          faulty, texts>>

\* ------------------------------------------------------------ AI replies
Entry(id, sc) == [criterion_id |-> id, score |-> sc, rationale |-> 120, evidence |-> <<40, 60>>]

Reply(cs, conf) ==
    [criteria_scores |-> cs, strengths |-> <<80, 90>>, improvements |-> <<70>>, confidence |-> conf]

Repeat(x, n) == [k \in 1..n |-> x]

LongId == "criterion-id-of-101-characters"

StrLen(id) == IF id = LongId THEN CriterionIdMax + 1 ELSE 2

\* replies that satisfy aiGradingResponseSchema
GoodReplies ==
    { Reply(<<Entry("c1", 8), Entry("c2", 15), Entry("c3", 20)>>, "high"),
      Reply(<<Entry("c1", 100)>>, "medium"),
      Reply(<<>>, "low") }

\* replies that break exactly one constraint of the schema
BadReplies ==
    { [criteria_scores |-> <<Entry("c1", 8)>>, strengths |-> <<80>>, improvements |-> <<70>>],
      Reply(<<Entry("c1", ScoreMax + 1)>>, "high"),
      Reply(<<Entry("c1", -1)>>, "high"),
      Reply(<<Entry("c1", 8)>>, "certain"),
      Reply(<<[Entry("c1", 8) EXCEPT !.rationale = RationaleMax + 1]>>, "high"),
      Reply(<<[Entry("c1", 8) EXCEPT !.evidence = Repeat(40, EvidenceMax + 1)]>>, "high"),
      Reply(<<Entry(LongId, 8)>>, "high"),
      [Reply(<<Entry("c1", 8)>>, "high") EXCEPT !.strengths = <<FeedbackItemMax + 1>>],
      Reply(Repeat(Entry("c1", 0), CriteriaScoresMax + 1), "low") }

NoReply == Reply(<<>>, "")

\* what aiResponse.json() yields: no tool call, arguments that are not JSON,
\* or arguments that parse to a raw result
AIBodies ==
    { [kind |-> "none", raw |-> NoReply], [kind |-> "badjson", raw |-> NoReply] }
    \cup { [kind |-> "args", raw |-> r] : r \in GoodReplies \cup BadReplies }

NoBody == [kind |-> "", raw |-> NoReply]

\* ------------------------------------------------------------ zod schemas
AllIn(seq, P(_)) == \A k \in 1..Len(seq) : P(seq[k])

StringMax(s, n) == s \in Nat /\ s <= n

\* a criterion score schema without .max(100)
criterionScoreSchemaNoMax(e) ==
    /\ {"criterion_id", "score", "rationale", "evidence"} \subseteq DOMAIN e
    /\ StrLen(e.criterion_id) <= CriterionIdMax
    /\ e.score >= 0
    /\ StringMax(e.rationale, RationaleMax)
    /\ Len(e.evidence) <= EvidenceMax
    /\ AllIn(e.evidence, LAMBDA s : StringMax(s, EvidenceItemMax))

criterionScoreSchema(e) ==
    /\ {"criterion_id", "score", "rationale", "evidence"} \subseteq DOMAIN e
    /\ StrLen(e.criterion_id) <= CriterionIdMax
    /\ e.score >= 0 /\ e.score <= ScoreMax
    /\ StringMax(e.rationale, RationaleMax)
    /\ Len(e.evidence) <= EvidenceMax
    /\ AllIn(e.evidence, LAMBDA s : StringMax(s, EvidenceItemMax))

aiGradingResponseSchema(r) ==
    /\ {"criteria_scores", "strengths", "improvements", "confidence"} \subseteq DOMAIN r
    /\ Len(r.criteria_scores) <= CriteriaScoresMax
    /\ AllIn(r.criteria_scores, criterionScoreSchema)
    /\ Len(r.strengths) <= FeedbackMax
    /\ AllIn(r.strengths, LAMBDA s : StringMax(s, FeedbackItemMax))
    /\ Len(r.improvements) <= FeedbackMax
    /\ AllIn(r.improvements, LAMBDA s : StringMax(s, FeedbackItemMax))
    /\ r.confidence \in Confidence

\* ------------------------------------------------------------- arithmetic
RECURSIVE SumScore(_)
SumScore(cs) == IF cs = <<>> THEN 0 ELSE Head(cs).score + SumScore(Tail(cs))

RECURSIVE SumWeight(_)
SumWeight(cs) == IF cs = <<>> THEN 0 ELSE Head(cs).weight + SumWeight(Tail(cs))

Frac(n, d) == [num |-> n, den |-> d]

Zero == Frac(0, 1)

\* a filter that keeps every criterion of the rubric
FilterCriteriaAll(allCriteria, selected) == allCriteria

\* a selection by lookup, in which an id that the rubric does not hold
\* yields an entry of its own
FilterCriteriaByLookup(allCriteria, selected) ==
    LET ids   == {allCriteria[k].id : k \in 1..Len(allCriteria)}
        stale == selected \ ids
    IN  SelectSeq(allCriteria, LAMBDA c : c.id \in selected)
            \o (IF stale = {} THEN <<>> ELSE <<Crit(CHOOSE id \in stale : TRUE, 1)>>)

\* allCriteria.filter(c => selected_criteria.includes(c.id))

FilterCriteria(allCriteria, selected) ==
    SelectSeq(allCriteria, LAMBDA c : c.id \in selected)

\* maxScore > 0 ? (totalScore / maxScore) * 100 : 0
OverallScore(criteria_scores, selectedCriteria) ==
    LET totalScore == SumScore(criteria_scores)
        maxScore   == SumWeight(selectedCriteria)
    IN  IF maxScore > 0 THEN Frac(totalScore * 100, maxScore) ELSE Zero

\* a number stored in the column overall_score DECIMAL(5,2): hundredths,
\* rounded half up
ToNumeric(q) == (2 * 100 * q.num + q.den) \div (2 * q.den)

\* ------------------------------------------------------------- responses
\* a response, with the line of the return statement that produced it
Response(status, error, line) ==
    [status |-> status, error |-> error, overallScore |-> Zero, line |-> line]

Success(score, line) ==
    [status |-> 200, error |-> "", overallScore |-> score, line |-> line]

NoResponse == Response(0, "", 0)

\* --------------------------------------------------- handler invocations
\* An invocation is its position in the handler and the handler's local
\* variables.  Invocations share nothing but the store, so the running and
\* finished invocations form a bag.
NewInv ==
    [pc |-> "request", caller |-> "", body |-> "", submissionId |-> "", focusProfileId |-> "",
     submission |-> [user_id |-> "", file_path |-> ""],
     focusProfile |-> [selected_criteria |-> {}, rubric_id |-> ""],
     selectedCriteria |-> <<>>, fileSize |-> 0, textLength |-> 0,
     aiData |-> NoBody, gradingResult |-> NoReply,
     overallScore |-> Zero, resp |-> NoResponse]

Request(caller, body, sid, pid) ==
    [NewInv EXCEPT !.caller = caller, !.body = body,
                   !.submissionId = sid, !.focusProfileId = pid]

\* a returned invocation: its locals are gone, its response is with the
\* client that made the request
Done(r, resp) ==
    [NewInv EXCEPT !.pc = "done", !.caller = r.caller, !.body = r.body,
                   !.submissionId = r.submissionId, !.resp = resp]

Invocations == BagToSet(inv)

\* no text is being truncated
NoText ==
    /\ submissionText = <<>>
    /\ maxLength = 0
    /\ processedText = <<>>
    /\ pass = 0

Init ==
    /\ submissions = [s \in {} |-> s]
    /\ results = EmptyBag
    /\ rubrics = RubricRows
    /\ focus_profiles = FocusProfileRows
    /\ inv = EmptyBag
    /\ rate_limits = [k \in {} |-> 0]
    /\ now = 1
    /\ rpc = [u \in Users |-> 0]
    /\ returned = EmptyBag
    /\ rubricInv = EmptyBag
    /\ faulty = FALSE
    /\ NoText

\* supabase.functions.invoke('grade-submission', { body })
Invoke(req) ==
    /\ BagCardinality(inv) < MaxInv
    /\ inv' = inv (+) SetToBag({req})

\* the invocation in state r moves to state r2
Step(r, r2) == inv' = (inv (-) SetToBag({r})) (+) SetToBag({r2})

Goto(r, pc, r2) == Step(r, [r2 EXCEPT !.pc = pc])

\* return new Response(...)
Return(r, resp) == Step(r, Done(r, resp))

\* whether a write of the status takes effect: when the database fails it,
\* the awaited update resolves with { error }, which no caller reads
WriteOutcomes == IF faulty THEN BOOLEAN ELSE {TRUE}

\* an update without the filter on id, which writes every row
UpdateStatusOfAll(sid, st) ==
    \E written \in WriteOutcomes :
       submissions' = IF written
                      THEN [s \in DOMAIN submissions |->
                               [submissions[s] EXCEPT !.status = st]]
                      ELSE submissions

\* serviceClient.from('submissions').update({ status }).eq('id', submissionId)
UpdateStatus(sid, st) ==
    \E written \in WriteOutcomes :
       submissions' = IF written /\ sid \in DOMAIN submissions
                      THEN [submissions EXCEPT ![sid].status = st]
                      ELSE submissions

\* an error path on which a failed write of the status is thrown into the
\* catch block, whose response replaces the one of the error
ErrorReturnMasked(r, status, error, line) ==
    /\ \E written \in WriteOutcomes :
         /\ submissions' = IF written /\ r.submissionId \in DOMAIN submissions
                           THEN [submissions EXCEPT ![r.submissionId].status = "error"]
                           ELSE submissions
         /\ Return(r, IF written THEN Response(status, error, line)
                      ELSE Response(500, "PROCESSING_FAILED", 554))
    /\ UNCHANGED <<results, rubrics, focus_profiles, limits, rubricInv, faulty, texts>>

\* an error path after the processing transition: write `error`, then return
ErrorReturn(r, status, error, line) ==
    /\ UpdateStatus(r.submissionId, "error")
    /\ Return(r, Response(status, error, line))
    /\ UNCHANGED <<results, rubrics, focus_profiles, limits, rubricInv, faulty, texts>>

\* a catch block that responds without the status write
CatchWithoutWrite(r) ==
    /\ Return(r, Response(500, "PROCESSING_FAILED", 554))
    /\ UNCHANGED <<submissions, results, rubrics, focus_profiles, limits, rubricInv, faulty, texts>>

\* the catch block, entered with submissionId and serviceClient set
CatchReturn(r) == ErrorReturn(r, 500, "PROCESSING_FAILED", 554)

\* --------------------------------------------------------------- clients
\* PaperUpload.handleUpload, per file: store the file, insert the row with
\* status pending, invoke grade-submission without awaiting it
handleUpload(u, f, ext, p) ==
    /\ f \notin DOMAIN submissions
    /\ focus_profiles[p].user_id = u
    /\ submissions' = [s \in DOMAIN submissions \cup {f} |->
                          IF s = f
                          THEN [user_id |-> u, file_path |-> ext, status |-> "pending"]
                          ELSE submissions[s]]
    /\ Invoke(Request(u, "valid", f, p))
    /\ UNCHANGED <<results, rubrics, focus_profiles, limits, rubricInv, faulty, texts>>

\* Results page: a Retry button is rendered on every failed submission
\* (loadPendingSubmissions) and on every result (loadResults)
RetryShown(s) ==
    /\ s \in DOMAIN submissions
    /\ \/ submissions[s].status = "error"
       \/ \E row \in BagToSet(results) : row.submission_id = s

\* RetryGradingButton.handleRetry: reset the status to pending, then invoke
handleRetry(s, p) ==
    /\ RetryShown(s)
    /\ focus_profiles[p].user_id = submissions[s].user_id
    /\ submissions' = [submissions EXCEPT ![s].status = "pending"]
    /\ Invoke(Request(submissions[s].user_id, "valid", s, p))
    /\ UNCHANGED <<results, rubrics, focus_profiles, limits, rubricInv, faulty, texts>>

\* any other client of the endpoint: no Authorization header, a body that is
\* not {submissionId: uuid, focusProfileId: uuid}, another user, or another
\* user's focus profile
directRequest(c, b, s, p) ==
    /\ [caller |-> c, body |-> b, profile |-> p] \in
         { [caller |-> NoAuth, body |-> "valid",     profile |-> "pAll"],
           [caller |-> "u2",   body |-> "malformed", profile |-> "pAll"],
           [caller |-> "u2",   body |-> "valid",     profile |-> "pOther"],
           [caller |-> "u1",   body |-> "valid",     profile |-> "pOther"] }
    /\ Invoke(IF b = "valid" THEN Request(c, b, s, p) ELSE Request(c, b, "", ""))
    /\ UNCHANGED <<submissions, results, rubrics, focus_profiles, limits, rubricInv, faulty, texts>>

\* ------------------------------------------- the grade-submission handler
\* an ownership failure that marks the submission as failed
SubmissionFailureMarksError(r) == ErrorReturn(r, 403, "NOT_FOUND", 84)

\* submissionError || !submission: respond 403 and touch nothing
SubmissionFailure(r) ==
    /\ Return(r, Response(403, "NOT_FOUND", 84))
    /\ UNCHANGED <<submissions, results, rubrics, focus_profiles, limits, rubricInv, faulty, texts>>

\* requestSchema.parse(body), the Authorization header, and the userClient
\* select of the submission row under row-level security
Serve(r) ==
    /\ r.pc = "request"
    /\ \E submissionError \in BOOLEAN :
         LET sid == r.submissionId
             row == /\ ~submissionError
                    /\ sid \in DOMAIN submissions
                    /\ submissions[sid].user_id = r.caller
         IN  IF r.body # "valid"
             THEN /\ Return(r, Response(400, "INVALID_INPUT", 547))
                  /\ UNCHANGED <<submissions, results, rubrics, focus_profiles, limits, rubricInv, faulty, texts>>
             ELSE IF r.caller = NoAuth
             THEN /\ Return(r, Response(401, "AUTH_FAILED", 62))
                  /\ UNCHANGED <<submissions, results, rubrics, focus_profiles, limits, rubricInv, faulty, texts>>
             ELSE IF ~row
             THEN SubmissionFailure(r)
             ELSE /\ Goto(r, "setProcessing",
                          [r EXCEPT !.submission =
                              [user_id |-> submissions[sid].user_id,
                               file_path |-> submissions[sid].file_path]])
                  /\ UNCHANGED <<submissions, results, rubrics, focus_profiles, limits, rubricInv, faulty, texts>>

\* a handler that goes on to the lookups and leaves the processing write
\* for later
SetProcessingDeferred(r) ==
    /\ r.pc = "setProcessing"
    /\ Goto(r, "fetchProfile", r)
    /\ UNCHANGED <<submissions, results, rubrics, focus_profiles, limits, rubricInv, faulty, texts>>

\* update({ status: 'processing' })
SetProcessing(r) ==
    /\ r.pc = "setProcessing"
    /\ UpdateStatus(r.submissionId, "processing")
    /\ Goto(r, "fetchProfile", r)
    /\ UNCHANGED <<results, rubrics, focus_profiles, limits, rubricInv, faulty, texts>>

\* focusError || !focusProfile
ProfileFailure(r) == ErrorReturn(r, 403, "NOT_FOUND", 116)

\* userClient select of the focus profile
FetchProfile(r) ==
    /\ r.pc = "fetchProfile"
    /\ \E focusError \in BOOLEAN :
         LET pid == r.focusProfileId
             row == /\ ~focusError
                    /\ pid \in DOMAIN focus_profiles
                    /\ focus_profiles[pid].user_id = r.caller
         IN  IF row
             THEN /\ Goto(r, "fetchRubric",
                          [r EXCEPT !.focusProfile =
                              [selected_criteria |-> focus_profiles[pid].selected_criteria,
                               rubric_id |-> focus_profiles[pid].rubric_id]])
                  /\ UNCHANGED <<submissions, results, rubrics, focus_profiles, limits, rubricInv, faulty, texts>>
             ELSE ProfileFailure(r)

\* a rubric lookup failure that returns without the status write
RubricFailureWithoutWrite(r) ==
    /\ Return(r, Response(403, "NOT_FOUND", 136))
    /\ UNCHANGED <<submissions, results, rubrics, focus_profiles, limits, rubricInv, faulty, texts>>

\* rubricError || !rubric
RubricFailure(r) == ErrorReturn(r, 403, "NOT_FOUND", 136)

\* userClient select of the rubric, then the filter of its criteria
FetchRubric(r) ==
    /\ r.pc = "fetchRubric"
    /\ \E rubricError \in BOOLEAN :
         LET rid == r.focusProfile.rubric_id
             row == /\ ~rubricError
                    /\ rid \in DOMAIN rubrics
                    /\ rubrics[rid].user_id = r.caller
         IN  IF row
             THEN /\ Goto(r, "listFile",
                          [r EXCEPT !.selectedCriteria =
                              FilterCriteria(rubrics[rid].criteria,
                                             r.focusProfile.selected_criteria)])
                  /\ UNCHANGED <<submissions, results, rubrics, focus_profiles, limits, rubricInv, faulty, texts>>
             ELSE RubricFailure(r)

\* storage.list(dirPath, { search: fileName }), then the size check
ListFile(r) ==
    /\ r.pc = "listFile"
    /\ \E listing \in {"error", "absent", "listed"}, fileSize \in ListedSizes :
         IF listing = "error" THEN ErrorReturn(r, 404, "NOT_FOUND", 163)
         ELSE IF listing = "absent" THEN ErrorReturn(r, 404, "NOT_FOUND", 176)
         ELSE IF fileSize > MAX_FILE_SIZE
         THEN ErrorReturn(r, 400, "FILE_TOO_LARGE", 191)
         ELSE /\ Goto(r, "download", [r EXCEPT !.fileSize = fileSize])
              /\ UNCHANGED <<submissions, results, rubrics, focus_profiles, limits, rubricInv, faulty, texts>>

\* the lengths of the text of a stored file
TextLengths == {MinExtractedLen - 1, MinExtractedLen}

\* storage.download(file_path); a .txt or .md file is read directly:
\* submissionText = await fileData.text()
Download(r) ==
    /\ r.pc = "download"
    /\ \E downloadError \in BOOLEAN, len \in TextLengths :
         IF downloadError THEN ErrorReturn(r, 500, "PROCESSING_FAILED", 209)
         ELSE /\ IF r.submission.file_path \in {".txt", ".md"}
                 THEN Goto(r, "callAI", [r EXCEPT !.textLength = len])
                 ELSE Goto(r, "extract", r)
              /\ UNCHANGED <<submissions, results, rubrics, focus_profiles, limits, rubricInv, faulty, texts>>

\* text extraction by the vision model for every other file type
ExtractText(r) ==
    /\ r.pc = "extract"
    /\ \E outcome \in {"throw", "notOk", "text"},
          len \in {0, MinExtractedLen - 1, MinExtractedLen} :
         IF outcome = "throw" THEN CatchReturn(r)
         ELSE IF outcome = "notOk" THEN ErrorReturn(r, 500, "PROCESSING_FAILED", 274)
         ELSE IF len < MinExtractedLen THEN ErrorReturn(r, 400, "EXTRACTION_FAILED", 291)
         ELSE /\ Goto(r, "callAI", [r EXCEPT !.textLength = len])
              /\ UNCHANGED <<submissions, results, rubrics, focus_profiles, limits, rubricInv, faulty, texts>>

\* the grading call: fetch(...) and aiResponse.ok
CallAI(r) ==
    /\ r.pc = "callAI"
    /\ \/ CatchReturn(r)
       \/ \E status \in {429, 402, 500} :
            ErrorReturn(r, status, "AI_ERROR",
                        IF status = 429 THEN 434 ELSE IF status = 402 THEN 441 ELSE 447)
       \/ \E aiData \in AIBodies :
            /\ Goto(r, "validate", [r EXCEPT !.aiData = aiData, !.textLength = 0])
            /\ UNCHANGED <<submissions, results, rubrics, focus_profiles, limits, rubricInv, faulty, texts>>

\* !validationResult.success
InvalidReply(r) == ErrorReturn(r, 500, "AI_ERROR", 470)

\* aiResponse.json(), JSON.parse of the tool-call arguments,
\* aiGradingResponseSchema.parse, and the overall score
Validate(r) ==
    /\ r.pc = "validate"
    /\ LET aiData == r.aiData
       IN  IF aiData.kind = "none" THEN ErrorReturn(r, 500, "AI_ERROR", 482)
           ELSE IF aiData.kind = "badjson" THEN CatchReturn(r)
           ELSE IF ~aiGradingResponseSchema(aiData.raw) THEN InvalidReply(r)
           ELSE /\ Goto(r, "insert",
                        [r EXCEPT !.aiData = NoBody,
                                  !.gradingResult = aiData.raw,
                                  !.overallScore =
                                      OverallScore(aiData.raw.criteria_scores,
                                                   r.selectedCriteria)])
                /\ UNCHANGED <<submissions, results, rubrics, focus_profiles, limits, rubricInv, faulty, texts>>

\* the row given to serviceClient.from('results').insert(...)
ResultRow(r) ==
    [submission_id |-> r.submissionId,
     user_id |-> r.submission.user_id,
     overall_score |-> ToNumeric(r.overallScore),
     criteria_scores |-> r.gradingResult.criteria_scores,
     strengths |-> r.gradingResult.strengths,
     improvements |-> r.gradingResult.improvements,
     confidence |-> r.gradingResult.confidence,
     flags |-> <<>>]

\* an insert failure that marks the submission as graded
InsertFailureMarksGraded(r) ==
    /\ UpdateStatus(r.submissionId, "graded")
    /\ Return(r, Response(500, "PROCESSING_FAILED", 514))
    /\ UNCHANGED <<results, rubrics, focus_profiles, limits, rubricInv, faulty, texts>>

\* resultError
InsertFailure(r) == ErrorReturn(r, 500, "PROCESSING_FAILED", 514)

InsertResult(r) ==
    /\ r.pc = "insert"
    /\ \E storeError \in BOOLEAN :
         LET resultError == storeError \/ ToNumeric(r.overallScore) >= NumericLimit
         IN  IF resultError THEN InsertFailure(r)
             ELSE /\ results' = results (+) SetToBag({ResultRow(r)})
                  /\ Goto(r, "setGraded", r)
                  /\ UNCHANGED <<submissions, rubrics, focus_profiles, limits, rubricInv, faulty, texts>>

\* a success path that marks the submission graded when the insert of the
\* row was refused
SetGradedUnconditionally(r) ==
    /\ r.pc \in {"insert", "setGraded"}
    /\ UpdateStatus(r.submissionId, "graded")
    /\ Return(r, Success(r.overallScore, 526))
    /\ UNCHANGED <<results, rubrics, focus_profiles, limits, rubricInv, faulty, texts>>

\* update({ status: 'graded' }) and the success response
SetGraded(r) ==
    /\ r.pc = "setGraded"
    /\ UpdateStatus(r.submissionId, "graded")
    /\ Return(r, Success(r.overallScore, 526))
    /\ UNCHANGED <<results, rubrics, focus_profiles, limits, rubricInv, faulty, texts>>

\* one step of the invocation in local state r
Handler(r) ==
    \/ Serve(r)
    \/ SetProcessing(r)
    \/ FetchProfile(r)
    \/ FetchRubric(r)
    \/ ListFile(r)
    \/ Download(r)
    \/ ExtractText(r)
    \/ CallAI(r)
    \/ Validate(r)
    \/ InsertResult(r)
    \/ SetGraded(r)

Next ==
    \/ \E u \in Uploaders, f \in Papers, ext \in FileExts, p \in ProfileIds :
          handleUpload(u, f, ext, p)
    \/ \E s \in SubIds, p \in ProfileIds : handleRetry(s, p)
    \/ \E c \in Users \cup {NoAuth}, b \in {"valid", "malformed"}, s \in SubIds,
          p \in ProfileIds : directRequest(c, b, s, p)
    \/ \E r \in Invocations : Serve(r)
    \/ \E r \in Invocations : SetProcessing(r)
    \/ \E r \in Invocations : FetchProfile(r)
    \/ \E r \in Invocations : FetchRubric(r)
    \/ \E r \in Invocations : ListFile(r)
    \/ \E r \in Invocations : Download(r)
    \/ \E r \in Invocations : ExtractText(r)
    \/ \E r \in Invocations : CallAI(r)
    \/ \E r \in Invocations : Validate(r)
    \/ \E r \in Invocations : InsertResult(r)
    \/ \E r \in Invocations : SetGraded(r)

Spec == Init /\ [][Next]_vars

\* a bulk upload: handleUpload runs once for each selected file, and the
\* invocations it starts run side by side
BulkPapers == {"essay", "report"}

BulkNext ==
    \/ \E u \in Uploaders, f \in BulkPapers, ext \in FileExts, p \in ProfileIds :
          handleUpload(u, f, ext, p)
    \/ \E r \in Invocations : Handler(r)

BulkSpec == Init /\ [][BulkNext]_vars

\* the same program over a database that may fail any write of the status
FaultInit ==
    /\ submissions = [s \in {} |-> s]
    /\ results = EmptyBag
    /\ rubrics = RubricRows
    /\ focus_profiles = FocusProfileRows
    /\ inv = EmptyBag
    /\ rate_limits = [k \in {} |-> 0]
    /\ now = 1
    /\ rpc = [u \in Users |-> 0]
    /\ returned = EmptyBag
    /\ rubricInv = EmptyBag
    /\ faulty = TRUE
    /\ NoText

FaultSpec == FaultInit /\ [][Next]_vars

\* every await of a running invocation completes
LiveSpec == Spec /\ WF_vars(\E r \in Invocations : Handler(r))

\* ------------------------------------------------------- the rate limiter
Endpoint == "process-rubric"

\* a stale read: the stored count is returned and a conflicting row is kept
UpsertWithoutIncrement(table, key) ==
    [k \in DOMAIN table \cup {key} |-> IF k \in DOMAIN table THEN table[k] ELSE 1]

\* INSERT ... VALUES (.., 1) ON CONFLICT (user_id, endpoint, window_minute)
\* DO UPDATE SET request_count = rate_limits.request_count + 1
Upsert(table, key) ==
    [k \in DOMAIN table \cup {key} |->
        IF k # key THEN table[k]
        ELSE IF key \in DOMAIN table THEN table[key] + 1 ELSE 1]

\* a limit that is reached one request early
BelowLimit(v_current_count, p_max_requests) == v_current_count < p_max_requests

\* RETURN v_current_count <= p_max_requests
WithinLimit(v_current_count, p_max_requests) == v_current_count <= p_max_requests

\* what check_rate_limit(p_user_id, p_endpoint, p_max_requests) does in the
\* minute v_window_minute: the table it leaves, the count it read back, and
\* the boolean it returns
check_rate_limit(p_user_id, p_endpoint, p_max_requests, v_window_minute) ==
    LET key   == <<p_user_id, p_endpoint, v_window_minute>>
        table == Upsert(rate_limits, key)
    IN  [table |-> table,
         v_current_count |-> table[key],
         withinLimit |-> WithinLimit(table[key], p_max_requests)]

\* the calls that have returned to user u in minute w
ReturnedFor(u, w) ==
    [c \in {x \in BagToSet(returned) : x.user = u /\ x.window = w} |-> returned[c]]

Issued == BagCardinality(returned) + rpc["u1"] + rpc["u2"]

\* a request of user u reaches serviceClient.rpc('check_rate_limit', ...)
IssueCheck(u) ==
    /\ Issued < MaxChecks
    /\ rpc' = [rpc EXCEPT ![u] = @ + 1]
    /\ UNCHANGED <<submissions, results, rubrics, focus_profiles, inv, rubricInv, faulty, texts,
                   rate_limits, now, returned>>

\* the database executes one pending call: one statement, one row lock
ExecuteCheck(u) ==
    /\ rpc[u] > 0
    /\ LET res == check_rate_limit(u, Endpoint, MaxRequests, now)
       IN  /\ rate_limits' = res.table
           /\ returned' = returned (+) SetToBag({
                  [user |-> u, window |-> now,
                   ordinal |-> BagCardinality(ReturnedFor(u, now)) + 1,
                   count |-> res.v_current_count,
                   allowed |-> res.withinLimit]})
    /\ rpc' = [rpc EXCEPT ![u] = @ - 1]
    /\ UNCHANGED <<submissions, results, rubrics, focus_profiles, inv, rubricInv, faulty, texts, now>>

\* now() moves to the next minute
Tick ==
    /\ now < MaxMinute
    /\ now' = now + 1
    /\ UNCHANGED <<submissions, results, rubrics, focus_profiles, inv, rubricInv, faulty, texts,
                   rate_limits, rpc, returned>>

RateNext ==
    \/ \E u \in Users : IssueCheck(u)
    \/ \E u \in Users : ExecuteCheck(u)
    \/ Tick

RateSpec == Init /\ [][RateNext]_vars

\* ------------------------------------------------------------ truncation
\* the longest text and the largest bound the truncation is applied to, and
\* how many times it is applied in a row
MaxTextLen == 7
MaxBound == 6
MaxPass == 2

\* MAX_TEXT_LENGTH
MAX_TEXT_LENGTH == 200000

\* texts of at most n characters
Chars == {"a", "b"}
TextsUpTo(n) == UNION {[1..k -> Chars] : k \in 0..n}

\* '\n\n[... middle section truncated due to length ...]\n\n', by character
Marker ==
    <<"\n", "\n", "[", ".", ".", ".", " ", "m", "i", "d", "d", "l", "e",
       " ", "s", "e", "c", "t", "i", "o", "n", " ", "t", "r", "u", "n",
       "c", "a", "t", "e", "d", " ", "d", "u", "e", " ", "t", "o", " ",
       "l", "e", "n", "g", "t", "h", " ", ".", ".", ".", "]", "\n", "\n">>

\* Math.floor(maxLen * 0.7) and Math.floor(maxLen * 0.3); the double product
\* and the integer quotient agree for every maxLen below 90 and for 200000
Tenths(maxLen, tenths) == (maxLen * tenths) \div 10

\* text.substring(from), text.substring(0, to)
SubstringFrom(text, from) == SubSeq(text, from + 1, Len(text))
SubstringTo(text, to) == SubSeq(text, 1, to)

\* a truncation whose last part starts at keepLast instead of length - keepLast
truncateFromKeepLast(text, maxLen) ==
    IF Len(text) > maxLen
    THEN LET keepFirst == Tenths(maxLen, 7)
             keepLast  == Tenths(maxLen, 3)
         IN  SubstringTo(text, keepFirst) \o Marker \o SubstringFrom(text, keepLast)
    ELSE text

\* a truncation that keeps the first 60% and the last 20%
truncateSixtyTwenty(text, maxLen) ==
    IF Len(text) > maxLen
    THEN LET keepFirst == Tenths(maxLen, 6)
             keepLast  == Tenths(maxLen, 2)
         IN  SubstringTo(text, keepFirst) \o Marker
                 \o SubstringFrom(text, Len(text) - keepLast)
    ELSE text

\* processedText of the handler, for a text and a bound
truncate(text, maxLen) ==
    IF Len(text) > maxLen
    THEN LET keepFirst == Tenths(maxLen, 7)
             keepLast  == Tenths(maxLen, 3)
             firstPart == SubstringTo(text, keepFirst)
             lastPart  == SubstringFrom(text, Len(text) - keepLast)
         IN  firstPart \o Marker \o lastPart
    ELSE text

\* the truncation is applied to the text at hand
Truncate ==
    /\ pass < MaxPass
    /\ processedText' = truncate(processedText, maxLength)
    /\ pass' = pass + 1
    /\ UNCHANGED <<submissions, results, rubrics, focus_profiles, inv, limits, rubricInv,
                   faulty, submissionText, maxLength>>

TruncInit ==
    /\ submissions = [s \in {} |-> s]
    /\ results = EmptyBag
    /\ rubrics = RubricRows
    /\ focus_profiles = FocusProfileRows
    /\ inv = EmptyBag
    /\ rate_limits = [k \in {} |-> 0]
    /\ now = 1
    /\ rpc = [u \in Users |-> 0]
    /\ returned = EmptyBag
    /\ rubricInv = EmptyBag
    /\ faulty = FALSE
    /\ submissionText \in TextsUpTo(MaxTextLen)
    /\ maxLength \in 0..MaxBound
    /\ processedText = submissionText
    /\ pass = 0

TruncNext == Truncate

TruncSpec == TruncInit /\ [][TruncNext]_vars

\* ------------------------------------------- the process-rubric pipeline
\* what the criteria-extraction model replies: tool-call arguments that
\* satisfy aiResponseSchema, arguments that break one of its constraints, a
\* reply without tool-call arguments, and arguments that are not JSON
GoodCriteria ==
    { [criteria |-> <<Crit("k1", 40), Crit("k2", 60)>>] }

BadCriteria ==
    { [rubric |-> <<Crit("k1", 40)>>],
      [criteria |-> <<Crit("k1", WeightMax + 1)>>],
      [criteria |-> <<[Crit("k1", 40) EXCEPT !.name = NameMax + 1]>>],
      [criteria |-> <<[id |-> "k1", name |-> 20, weight |-> 40]>>],
      [criteria |-> <<Crit(LongId, 40)>>],
      [criteria |-> Repeat(Crit("k1", 1), CriteriaMax + 1)] }

RubricBodies ==
    { [kind |-> "none", raw |-> [criteria |-> <<>>]],
      [kind |-> "badjson", raw |-> [criteria |-> <<>>]] }
    \cup { [kind |-> "args", raw |-> c] : c \in GoodCriteria \cup BadCriteria }

StringIn(s, lo, hi) == s \in Nat /\ lo <= s /\ s <= hi

criterionSchema(c) ==
    /\ {"id", "name", "description", "weight", "category"} \subseteq DOMAIN c
    /\ 1 <= StrLen(c.id) /\ StrLen(c.id) <= RubricIdMax
    /\ StringIn(c.name, 1, NameMax)
    /\ StringIn(c.description, 1, DescriptionMax)
    /\ c.weight >= 0 /\ c.weight <= WeightMax
    /\ StringIn(c.category, 1, CategoryMax)

aiResponseSchema(raw) ==
    /\ "criteria" \in DOMAIN raw
    /\ Len(raw.criteria) <= CriteriaMax
    /\ AllIn(raw.criteria, criterionSchema)

\* the responses of process-rubric, with the line of the return statement
RubricResponse(status, error, line) ==
    [status |-> status, error |-> error, success |-> FALSE, criteria |-> <<>>, line |-> line]

RubricSuccess(criteria) ==
    [status |-> 200, error |-> "", success |-> TRUE, criteria |-> criteria, line |-> 431]

NoPath == Path("", "", "")

\* an invocation of process-rubric: its position and its local variables;
\* `validated` tells whether aiResponseSchema.parse has returned a value
NewRubricInv ==
    [pc |-> "request", caller |-> "", body |-> "", rubricId |-> "", filePath |-> NoPath,
     rubric |-> [user_id |-> "", file_path |-> NoPath],
     fileSize |-> 0, fileData |-> NoPath, fileText |-> 0,
     validated |-> FALSE, criteria |-> <<>>,
     resp |-> RubricResponse(0, "", 0)]

RubricRequest(caller, body, rid, path) ==
    [NewRubricInv EXCEPT !.caller = caller, !.body = body,
                         !.rubricId = rid, !.filePath = path]

\* a returned invocation: the response is with the caller that asked for
\* the rubric
RubricDone(r, resp) ==
    [NewRubricInv EXCEPT !.pc = "done", !.caller = r.caller,
                         !.rubricId = r.rubricId, !.resp = resp]

RubricInvocations == BagToSet(rubricInv)

\* supabase.functions.invoke('process-rubric', { body })
InvokeRubric(req) ==
    /\ BagCardinality(rubricInv) < MaxRub
    /\ rubricInv' = rubricInv (+) SetToBag({req})

RubricStep(r, r2) == rubricInv' = (rubricInv (-) SetToBag({r})) (+) SetToBag({r2})

RubricGoto(r, pc, r2) == RubricStep(r, [r2 EXCEPT !.pc = pc])

\* an error response that first empties the criteria of the rubric
RubricReturnClearing(r, status, error, line) ==
    /\ RubricStep(r, RubricDone(r, RubricResponse(status, error, line)))
    /\ rubrics' = IF r.rubricId \in DOMAIN rubrics
                  THEN [rubrics EXCEPT ![r.rubricId].criteria = <<>>]
                  ELSE rubrics
    /\ UNCHANGED <<submissions, results, focus_profiles, inv, limits, faulty, texts>>

\* return new Response(...) on a path that has written nothing
RubricReturn(r, status, error, line) ==
    /\ RubricStep(r, RubricDone(r, RubricResponse(status, error, line)))
    /\ UNCHANGED <<submissions, results, rubrics, focus_profiles, inv, limits, faulty, texts>>

\* a step that only moves the invocation on
RubricAdvance(r, pc, r2) ==
    /\ RubricGoto(r, pc, r2)
    /\ UNCHANGED <<submissions, results, rubrics, focus_profiles, inv, limits, faulty, texts>>

\* the generic branch of the catch block
RubricCatch(r) == RubricReturn(r, 500, "PROCESSING_FAILED", 447)

\* RubricUpload.handleUpload: store the file in the user's folder, insert the
\* rubric row with no criteria, invoke process-rubric with the row's id and
\* the path of the file
RubricUpload(u, id, ext) ==
    /\ id \notin DOMAIN rubrics
    /\ rubrics' = [x \in DOMAIN rubrics \cup {id} |->
                     IF x = id
                     THEN [user_id |-> u, file_path |-> Path(u, id, ext), criteria |-> <<>>]
                     ELSE rubrics[x]]
    /\ InvokeRubric(RubricRequest(u, "valid", id, Path(u, id, ext)))
    /\ UNCHANGED <<submissions, results, focus_profiles, inv, limits, faulty, texts>>

\* any other client of the endpoint: no Authorization header, a body that is
\* not {rubricId: uuid, filePath: string}, the owner asking again for a
\* rubric that exists, another user's rubric, a rubric id that does not
\* exist, the own rubric with another file
DirectRubricRequests ==
    { RubricRequest(NoAuth, "valid", "r1", RubricRows.r1.file_path),
      RubricRequest("u2", "malformed", "", NoPath),
      RubricRequest("u1", "valid", "r1", RubricRows.r1.file_path),
      RubricRequest("u2", "valid", "r2", RubricRows.r2.file_path),
      RubricRequest("u1", "valid", "r2", RubricRows.r2.file_path),
      RubricRequest("u1", "valid", NoRubric, RubricRows.r1.file_path),
      RubricRequest("u1", "valid", "r1", RubricRows.r2.file_path) }

directRubricRequest(req) ==
    /\ InvokeRubric(req)
    /\ UNCHANGED <<submissions, results, rubrics, focus_profiles, inv, limits, faulty, texts>>

\* requestSchema.parse(body), the Authorization header, auth.getUser()
Authenticate(r) ==
    /\ r.pc = "request"
    /\ \E userError \in BOOLEAN :
         IF r.body # "valid" THEN RubricReturn(r, 400, "INVALID_INPUT", 440)
         ELSE IF r.caller = NoAuth THEN RubricReturn(r, 401, "AUTH_FAILED", 92)
         ELSE IF userError THEN RubricReturn(r, 401, "AUTH_FAILED", 109)
         ELSE RubricAdvance(r, "rateLimit", r)

\* a failed check that refuses the request
RateLimitFailedClosed(r) == RubricReturn(r, 429, "RATE_LIMITED", 132)

\* rateLimitError: logged, and the request goes on
RateLimitFailed(r) == RubricAdvance(r, "authorize", r)

\* serviceClient.rpc('check_rate_limit', { p_user_id: user.id, ... })
RateLimit(r) ==
    /\ r.pc = "rateLimit"
    /\ \E rateLimitError \in BOOLEAN :
         IF rateLimitError THEN RateLimitFailed(r)
         ELSE LET res == check_rate_limit(r.caller, Endpoint, MaxRequests, now)
              IN  /\ rate_limits' = res.table
                  /\ IF ~res.withinLimit
                     THEN RubricStep(r, RubricDone(r, RubricResponse(429, "RATE_LIMITED", 132)))
                     ELSE RubricGoto(r, "authorize", r)
                  /\ UNCHANGED <<submissions, results, rubrics, focus_profiles, inv,
                                 now, rpc, returned, faulty, texts>>

\* a select with the service-role client, which sees every row
ServiceClientSelect(table, id, caller) == id \in DOMAIN table

\* a select with the caller's client: row-level security shows a row only
\* to its owner (auth.uid() = user_id)
UserClientSelect(table, id, caller) ==
    id \in DOMAIN table /\ table[id].user_id = caller

\* an ownership failure that tells a missing rubric from another user's
OwnershipFailureLeaking(r) ==
    IF r.rubricId \in DOMAIN rubrics
    THEN RubricReturn(r, 403, "FORBIDDEN", 147)
    ELSE RubricReturn(r, 404, "NOT_FOUND", 147)

\* rubricError || !rubric
OwnershipFailure(r) == RubricReturn(r, 403, "NOT_FOUND", 147)

\* userClient select of the rubric row
Authorize(r) ==
    /\ r.pc = "authorize"
    /\ \E rubricError \in BOOLEAN :
         LET rid == r.rubricId
             row == ~rubricError /\ UserClientSelect(rubrics, rid, r.caller)
         IN  IF ~row THEN OwnershipFailure(r)
             ELSE RubricAdvance(r, "listFile",
                      [r EXCEPT !.rubric = [user_id |-> rubrics[rid].user_id,
                                            file_path |-> rubrics[rid].file_path]])

\* the objects of the bucket `rubrics`: every rubric row was inserted after
\* its file had been stored
Stored(path) == \E x \in DOMAIN rubrics : rubrics[x].file_path = path

\* a size check that lets every file through
AnySize(fileSize) == TRUE

\* !(fileSize > MAX_FILE_SIZE)
WithinCap(fileSize) == fileSize <= RubricMaxFileSize

\* serviceClient.storage.list(dirPath, { search: fileName }) for the
\* filePath of the request, then the size check
ListRubricFile(r) ==
    /\ r.pc = "listFile"
    /\ \E listing \in {"error", "absent", "listed"},
          fileSize \in {RubricMaxFileSize, RubricMaxFileSize + 1} :
         IF listing = "error" THEN RubricReturn(r, 404, "NOT_FOUND", 165)
         ELSE IF listing = "absent" \/ ~Stored(r.filePath)
         THEN RubricReturn(r, 404, "NOT_FOUND", 173)
         ELSE IF ~WithinCap(fileSize) THEN RubricReturn(r, 400, "FILE_TOO_LARGE", 183)
         ELSE RubricAdvance(r, "download", [r EXCEPT !.fileSize = fileSize])

\* serviceClient.storage.download(filePath), then path.extname(filePath)
DownloadRubric(r) ==
    /\ r.pc = "download"
    /\ \E downloadError \in BOOLEAN :
         IF downloadError THEN RubricReturn(r, 500, "PROCESSING_FAILED", 196)
         ELSE IF r.filePath.ext \notin {".txt", ".md", ".docx", ".pdf"}
         THEN RubricReturn(r, 400, "UNSUPPORTED_TYPE", 276)
         ELSE RubricAdvance(r, "extract", [r EXCEPT !.fileData = r.filePath])

\* fileData.text(), extractTextFromDocx(fileData) or the vision model, then
\* the two checks of the length of the text
ExtractRubricText(r) ==
    /\ r.pc = "extract"
    /\ \E outcome \in {"throw", "failed", "text"},
          len \in {0, MinRubricText - 1, MinRubricText, MaxRubricText + 1} :
         LET ext == r.filePath.ext
         IN  IF outcome = "throw" /\ ext = ".pdf" THEN RubricCatch(r)
             ELSE IF outcome = "failed" /\ ext = ".pdf"
             THEN RubricReturn(r, 500, "PROCESSING_FAILED", 264)
             ELSE IF outcome # "text" /\ ext = ".docx"
             THEN RubricReturn(r, 400, "DOCX_INVALID", 218)
             ELSE IF len < MinRubricText THEN RubricReturn(r, 400, "EXTRACTION_FAILED", 284)
             ELSE IF len > MaxRubricText THEN RubricReturn(r, 400, "INVALID_INPUT", 293)
             ELSE RubricAdvance(r, "callAI", [r EXCEPT !.fileText = len])

\* criteria = []; if the reply has tool-call arguments, JSON.parse and
\* aiResponseSchema.parse
ValidateCriteria(r, aiData) ==
    IF aiData.kind = "none" THEN RubricAdvance(r, "update", [r EXCEPT !.criteria = <<>>])
    ELSE IF aiData.kind = "badjson" THEN RubricCatch(r)
    ELSE IF ~aiResponseSchema(aiData.raw) THEN RubricReturn(r, 500, "AI_ERROR", 392)
    ELSE RubricAdvance(r, "update", [r EXCEPT !.validated = TRUE,
                                              !.criteria = aiData.raw.criteria])

\* the criteria-extraction call: fetch(...), aiResponse.ok, aiResponse.json()
\* and the validation of the reply, which touch nothing but local variables
ExtractCriteria(r) ==
    /\ r.pc = "callAI"
    /\ \/ RubricCatch(r)
       \/ \E status \in {429, 402, 500} :
            RubricReturn(r, status, "AI_ERROR",
                         IF status = 429 THEN 360 ELSE IF status = 402 THEN 367 ELSE 373)
       \/ \E aiData \in RubricBodies : ValidateCriteria(r, aiData)

\* serviceClient.from('rubrics').update({ criteria }).eq('id', rubricId)
UpdateRubric(r) ==
    /\ r.pc = "update"
    /\ \E updateError \in BOOLEAN :
         IF updateError THEN RubricReturn(r, 500, "PROCESSING_FAILED", 407)
         ELSE /\ rubrics' = IF r.rubricId \in DOMAIN rubrics
                            THEN [rubrics EXCEPT ![r.rubricId].criteria = r.criteria]
                            ELSE rubrics
              /\ RubricGoto(r, "insertProfile", r)
              /\ UNCHANGED <<submissions, results, focus_profiles, inv, limits, faulty, texts>>

\* the primary key gen_random_uuid() gives the next row of focus_profiles
NewProfileId == "p" \o ToString(Cardinality(DOMAIN focus_profiles) + 1)

\* criteria.map((c) => c.id)
CriteriaIds(criteria) == {criteria[k].id : k \in 1..Len(criteria)}

\* the row given to serviceClient.from('focus_profiles').insert(...)
DefaultProfile(r) ==
    [user_id |-> r.rubric.user_id, rubric_id |-> r.rubricId, is_default |-> TRUE,
     selected_criteria |-> CriteriaIds(r.criteria)]

\* a failed insert that fails the request and takes the criteria back
ProfileInsertFatal(r) ==
    /\ rubrics' = IF r.rubricId \in DOMAIN rubrics
                  THEN [rubrics EXCEPT ![r.rubricId].criteria = <<>>]
                  ELSE rubrics
    /\ RubricStep(r, RubricDone(r, RubricResponse(500, "PROCESSING_FAILED", 427)))
    /\ UNCHANGED <<submissions, results, focus_profiles, inv, limits, faulty, texts>>

\* profileError: logged, and the success response is given all the same
ProfileInsertFailed(r) ==
    /\ RubricStep(r, RubricDone(r, RubricSuccess(r.criteria)))
    /\ UNCHANGED <<submissions, results, rubrics, focus_profiles, inv, limits, faulty, texts>>

\* the insert of the default focus profile and the success response
InsertDefaultProfile(r) ==
    /\ r.pc = "insertProfile"
    /\ \E profileError \in BOOLEAN :
         IF profileError THEN ProfileInsertFailed(r)
         ELSE /\ focus_profiles' =
                     [p \in DOMAIN focus_profiles \cup {NewProfileId} |->
                         IF p = NewProfileId THEN DefaultProfile(r) ELSE focus_profiles[p]]
              /\ RubricStep(r, RubricDone(r, RubricSuccess(r.criteria)))
              /\ UNCHANGED <<submissions, results, rubrics, inv, limits, faulty, texts>>

\* one step of the process-rubric invocation in local state r
RubricHandler(r) ==
    \/ Authenticate(r)
    \/ RateLimit(r)
    \/ Authorize(r)
    \/ ListRubricFile(r)
    \/ DownloadRubric(r)
    \/ ExtractRubricText(r)
    \/ ExtractCriteria(r)
    \/ UpdateRubric(r)
    \/ InsertDefaultProfile(r)

\* nine earlier requests of the teacher have been counted in this minute
RubricInit ==
    /\ submissions = [s \in {} |-> s]
    /\ results = EmptyBag
    /\ rubrics = RubricRows
    /\ focus_profiles = FocusProfileRows
    /\ inv = EmptyBag
    /\ rate_limits = [k \in {<<"u1", Endpoint, 1>>} |-> MaxRequests - 1]
    /\ now = 1
    /\ rpc = [u \in Users |-> 0]
    /\ returned = EmptyBag
    /\ rubricInv = EmptyBag
    /\ faulty = FALSE
    /\ NoText

RubricNext ==
    \/ \E u \in Uploaders, id \in NewRubrics, ext \in UploadExts : RubricUpload(u, id, ext)
    \/ \E req \in DirectRubricRequests : directRubricRequest(req)
    \/ \E r \in RubricInvocations : Authenticate(r)
    \/ \E r \in RubricInvocations : RateLimit(r)
    \/ \E r \in RubricInvocations : Authorize(r)
    \/ \E r \in RubricInvocations : ListRubricFile(r)
    \/ \E r \in RubricInvocations : DownloadRubric(r)
    \/ \E r \in RubricInvocations : ExtractRubricText(r)
    \/ \E r \in RubricInvocations : ExtractCriteria(r)
    \/ \E r \in RubricInvocations : UpdateRubric(r)
    \/ \E r \in RubricInvocations : InsertDefaultProfile(r)

RubricSpec == RubricInit /\ [][RubricNext]_vars

\* ------------------------------------------------- the two pipelines
\* the invocations of both handlers, running and returned
InFlight == BagCardinality(inv) + BagCardinality(rubricInv)

\* both edge functions serve requests over the same tables
SysNext ==
    \/ /\ InFlight < MaxSys
       /\ \E u \in Uploaders, f \in Papers, ext \in FileExts, p \in ProfileIds :
             handleUpload(u, f, ext, p)
    \/ /\ InFlight < MaxSys
       /\ \E s \in SubIds, p \in ProfileIds : handleRetry(s, p)
    \/ /\ InFlight < MaxSys
       /\ \E c \in Users \cup {NoAuth}, b \in {"valid", "malformed"}, s \in SubIds,
             p \in ProfileIds : directRequest(c, b, s, p)
    \/ /\ InFlight < MaxSys
       /\ \E u \in Uploaders, id \in NewRubrics, ext \in UploadExts : RubricUpload(u, id, ext)
    \/ /\ InFlight < MaxSys
       /\ \E req \in DirectRubricRequests : directRubricRequest(req)
    \/ \E r \in Invocations : Serve(r)
    \/ \E r \in Invocations : SetProcessing(r)
    \/ \E r \in Invocations : FetchProfile(r)
    \/ \E r \in Invocations : FetchRubric(r)
    \/ \E r \in Invocations : ListFile(r)
    \/ \E r \in Invocations : Download(r)
    \/ \E r \in Invocations : ExtractText(r)
    \/ \E r \in Invocations : CallAI(r)
    \/ \E r \in Invocations : Validate(r)
    \/ \E r \in Invocations : InsertResult(r)
    \/ \E r \in Invocations : SetGraded(r)
    \/ \E r \in RubricInvocations : Authenticate(r)
    \/ \E r \in RubricInvocations : RateLimit(r)
    \/ \E r \in RubricInvocations : Authorize(r)
    \/ \E r \in RubricInvocations : ListRubricFile(r)
    \/ \E r \in RubricInvocations : DownloadRubric(r)
    \/ \E r \in RubricInvocations : ExtractRubricText(r)
    \/ \E r \in RubricInvocations : ExtractCriteria(r)
    \/ \E r \in RubricInvocations : UpdateRubric(r)
    \/ \E r \in RubricInvocations : InsertDefaultProfile(r)

SysSpec == RubricInit /\ [][SysNext]_vars

\* ------------------------------------------------------------ properties
\* an invocation in local state r takes the step
Took(r) == CopiesIn(r, inv') < CopiesIn(r, inv)

\* the step delivers the returned invocation d
Returned(d) == CopiesIn(d, inv') > CopiesIn(d, inv)

\* the invocation in local state r returns to its caller in the step
Returns(r) ==
    /\ r.pc # "done"
    /\ Took(r)
    /\ \E d \in BagToSet(inv') : d.pc = "done" /\ Returned(d)

StatusOf(s) == submissions[s].status

\* the result rows of submission s
ResultsOf(rows, s) ==
    [row \in {x \in BagToSet(rows) : x.submission_id = s} |-> rows[row]]

C3_LifecycleTransitionsOnly ==
    [][\A s \in DOMAIN submissions :
          StatusOf(s) # submissions'[s].status
              => <<StatusOf(s), submissions'[s].status>> \in
                     { <<"pending", "processing">>, <<"processing", "graded">>,
                       <<"processing", "error">>, <<"error", "pending">>,
                       <<"graded", "pending">> }]_vars

\* C4: a submission has at most one result row.
C4_AtMostOneResult ==
    \A s \in SubIds : BagCardinality(ResultsOf(results, s)) <= 1

\* the fields of a result row that come from the AI reply
ReplyOf(row) ==
    [criteria_scores |-> row.criteria_scores, strengths |-> row.strengths,
     improvements |-> row.improvements, confidence |-> row.confidence]

\* C5: an invocation whose AI reply breaks the schema (a missing field, a
\* score outside [0,100], a string or list over its cap, a confidence outside
\* the enum) returns the invalid-AI-response error with status error and the
\* result rows as they were; and a row is inserted only by an invocation that
\* is past validation, from a reply that satisfies every constraint.
C5_InvalidReplyRejected ==
    [][/\ \A r \in Invocations :
            (r.pc = "validate" /\ r.aiData.raw \in BadReplies /\ Took(r))
                => /\ Returned(Done(r, Response(500, "AI_ERROR", 470)))
                   /\ submissions'[r.submissionId].status = "error"
                   /\ results' = results
       /\ \A row \in BagToSet(results') :
            CopiesIn(row, results') > CopiesIn(row, results)
                => /\ ReplyOf(row) \in GoodReplies
                   /\ \E r \in Invocations :
                        r.pc = "insert" /\ Took(r) /\ r.gradingResult = ReplyOf(row)]_vars

\* the validation failure has ended an invocation: status error, no row
C5_Witness ==
    \E d \in Invocations :
        /\ d.pc = "done" /\ d.resp.line = 470 /\ d.resp.error = "AI_ERROR"
        /\ StatusOf(d.submissionId) = "error"
        /\ results = EmptyBag

\* C6: every entry of every stored criteria_scores has a score between 0 and
\* the weight of the rubric criterion with the entry's criterion_id.
C6_ScoreWithinWeight ==
    \A row \in BagToSet(results) :
        \A k \in 1..Len(row.criteria_scores) :
            \A rid \in DOMAIN rubrics :
                \A j \in 1..Len(rubrics[rid].criteria) :
                    rubrics[rid].criteria[j].id = row.criteria_scores[k].criterion_id
                        => /\ 0 <= row.criteria_scores[k].score
                           /\ row.criteria_scores[k].score <= rubrics[rid].criteria[j].weight

\* the sum of term(1), ..., term(n)
SumTo(n, term(_)) ==
    LET sum[k \in 0..n] == IF k = 0 THEN 0 ELSE sum[k - 1] + term(k)
    IN  sum[n]

\* the weights of the criteria the focus profile pid selects, from the tables
SelectedWeight(pid) ==
    LET selected == focus_profiles[pid].selected_criteria
        criteria == rubrics[focus_profiles[pid].rubric_id].criteria
    IN  SumTo(Len(criteria),
              LAMBDA k : IF criteria[k].id \in selected THEN criteria[k].weight ELSE 0)

AwardedScore(reply) ==
    SumTo(Len(reply.criteria_scores), LAMBDA k : reply.criteria_scores[k].score)

\* C7: the overall score an invocation has computed is 100 times the sum of
\* the scores of the validated reply over the sum of the weights of the
\* selected criteria when that sum is positive, and 0 when it is zero.
C7_OverallScoreFormula ==
    \A r \in Invocations :
        r.pc \in {"insert", "setGraded"}
            => /\ r.overallScore.den > 0
               /\ IF SelectedWeight(r.focusProfileId) > 0
                  THEN r.overallScore.num * SelectedWeight(r.focusProfileId)
                           = 100 * AwardedScore(r.gradingResult) * r.overallScore.den
                  ELSE r.overallScore.num = 0

\* weights 10, 20, 30 and scores 8, 15, 20: the overall score is 4300/60
C7_Witness ==
    \E r \in Invocations :
        /\ r.pc = "insert"
        /\ r.focusProfileId = "pAll"
        /\ AwardedScore(r.gradingResult) = 43
        /\ r.overallScore = Frac(4300, 60)

\* C8: every stored overall_score (in hundredths) is between 0 and 100.
C8_OverallScoreInRange ==
    \A row \in BagToSet(results) :
        0 <= row.overall_score /\ row.overall_score <= 100 * 100

\* C9: when the submission named by an authenticated, well-formed request is
\* absent or belongs to another user, the invocation returns 403 and every
\* stored row is as it was.
C9_OwnershipFailureTouchesNothing ==
    [][\A r \in Invocations :
          (/\ r.pc = "request" /\ r.body = "valid" /\ r.caller # NoAuth
           /\ \/ r.submissionId \notin DOMAIN submissions
              \/ submissions[r.submissionId].user_id # r.caller
           /\ Took(r))
              => /\ Returned(Done(r, Response(403, "NOT_FOUND", 84)))
                 /\ submissions' = submissions
                 /\ results' = results
                 /\ rubrics' = rubrics
                 /\ focus_profiles' = focus_profiles]_vars

\* another user's request for the uploaded paper was refused; the paper is
\* still pending and has no result
C9_Witness ==
    \E d \in Invocations :
        /\ d.pc = "done" /\ d.caller = "u2" /\ d.resp.line = 84
        /\ d.submissionId \in DOMAIN submissions
        /\ StatusOf(d.submissionId) = "pending"
        /\ results = EmptyBag

\* the row a successful insert of invocation r adds
ExpectedRow(r) ==
    [submission_id |-> r.submissionId,
     user_id |-> submissions[r.submissionId].user_id,
     overall_score |-> ToNumeric(r.overallScore),
     criteria_scores |-> r.gradingResult.criteria_scores,
     strengths |-> r.gradingResult.strengths,
     improvements |-> r.gradingResult.improvements,
     confidence |-> r.gradingResult.confidence,
     flags |-> <<>>]

\* C10: the insert step of an invocation either fails, or adds exactly one
\* row with the validated fields and the computed overall score and leaves
\* the status alone; the status becomes graded only in the step after a
\* successful insert, and that step returns success with the same overall score.
C10_SuccessPath ==
    [][/\ \A r \in Invocations :
            (r.pc = "insert" /\ Took(r))
                => \/ /\ results' = results (+) SetToBag({ExpectedRow(r)})
                      /\ submissions' = submissions
                      /\ CopiesIn([r EXCEPT !.pc = "setGraded"], inv')
                             > CopiesIn([r EXCEPT !.pc = "setGraded"], inv)
                   \/ /\ results' = results
                      /\ Returned(Done(r, Response(500, "PROCESSING_FAILED", 514)))
                      /\ submissions'[r.submissionId].status = "error"
       /\ \A r \in Invocations :
            (r.pc = "setGraded" /\ Took(r))
                => /\ BagIn(ExpectedRow(r), results)
                   /\ results' = results
                   /\ submissions'[r.submissionId].status = "graded"
                   /\ Returned(Done(r, Success(r.overallScore, 526)))
       /\ \A s \in DOMAIN submissions :
            (StatusOf(s) # "graded" /\ submissions'[s].status = "graded")
                => \E r \in Invocations :
                     r.pc = "setGraded" /\ r.submissionId = s /\ Took(r)]_vars

\* one successful invocation: one row with 71.67, status graded, and the
\* response carries 4300/60
C10_Witness ==
    \E d \in Invocations :
        /\ d.pc = "done" /\ d.resp = Success(Frac(4300, 60), 526)
        /\ StatusOf(d.submissionId) = "graded"
        /\ BagCardinality(results) = 1
        /\ \E row \in BagToSet(results) :
             row.submission_id = d.submissionId /\ row.overall_score = 7167

\* C11: of the checks of one user in one minute the first MaxRequests
\* (10) return allowed and every later one returns not allowed; the count
\* starts again with the first check of the next minute.
C11_LimitBoundary ==
    \A c \in BagToSet(returned) : c.allowed <=> (c.ordinal <= MaxRequests)

\* a user's tenth check was allowed, the eleventh refused, and the first
\* check of the following minute allowed again
C11_Witness ==
    \E u \in Users, w \in 1..MaxMinute :
        /\ \E c \in BagToSet(returned) :
             c.user = u /\ c.window = w /\ c.ordinal = MaxRequests /\ c.allowed
        /\ \E c \in BagToSet(returned) :
             c.user = u /\ c.window = w /\ c.ordinal = MaxRequests + 1 /\ ~c.allowed
        /\ \E c \in BagToSet(returned) :
             c.user = u /\ c.window = w + 1 /\ c.ordinal = 1 /\ c.allowed

\* C12: concurrent checks of one user in one minute read back distinct
\* consecutive counts (the k-th to execute reads k, no count is read twice),
\* the stored count is the number of checks executed, and at most
\* MaxRequests of them return allowed.
C12_AtomicIncrement ==
    \A u \in Users, w \in 1..MaxMinute :
        LET calls == ReturnedFor(u, w)
        IN  /\ \A c \in DOMAIN calls : calls[c] = 1 /\ c.count = c.ordinal
            /\ {c.count : c \in DOMAIN calls} = 1..BagCardinality(calls)
            /\ <<u, Endpoint, w>> \in DOMAIN rate_limits
                  => rate_limits[<<u, Endpoint, w>>] = BagCardinality(calls)
            /\ Cardinality({c \in DOMAIN calls : c.allowed}) <= MaxRequests

\* three calls of one user were in flight together around the limit: the
\* counts 10 and 11 have been read back and the third call is still pending
C12_Witness ==
    \E u \in Users :
        /\ rpc[u] > 0
        /\ \E c \in BagToSet(returned) :
             c.user = u /\ c.window = now /\ c.count = MaxRequests /\ c.allowed
        /\ \E c \in BagToSet(returned) :
             c.user = u /\ c.window = now /\ c.count = MaxRequests + 1 /\ ~c.allowed

\* a process-rubric invocation in local state r takes the step
TookRubric(r) == CopiesIn(r, rubricInv') < CopiesIn(r, rubricInv)

\* the step leaves the invocation in local state r2
BecameRubric(r2) == CopiesIn(r2, rubricInv') > CopiesIn(r2, rubricInv)

\* the tables the handlers read and write
Tables == <<submissions, results, rubrics, focus_profiles>>

\* the row of rate_limits that the check of user u counts in
RateKey(u) == <<u, Endpoint, now>>

\* C13: when the rate-limit check of process-rubric fails (no count is
\* taken) the invocation goes on to the ownership check in exactly the state
\* an allowed invocation goes on in; the response 429 of the rate limit is
\* given only after a check that counted the request and found the count
\* above MaxRequests.
C13_RateLimitFailsOpen ==
    [][\A r \in RubricInvocations :
          (r.pc = "rateLimit" /\ TookRubric(r))
              => LET counted == rate_limits' # rate_limits
                     exceeded == counted /\ rate_limits'[RateKey(r.caller)] > MaxRequests
                 IN  /\ ~exceeded => BecameRubric([r EXCEPT !.pc = "authorize"])
                     /\ exceeded =>
                           BecameRubric(RubricDone(r, RubricResponse(429, "RATE_LIMITED", 132)))
                     /\ Tables' = Tables]_vars

\* the teacher's request was served to the end although the counter of this
\* minute, one below the limit, never counted it: its check had failed
C13_Witness ==
    /\ rate_limits[RateKey("u1")] = MaxRequests - 1
    /\ \E d \in RubricInvocations :
         d.pc = "done" /\ d.caller = "u1" /\ d.resp.success

\* C15: the file a process-rubric invocation has downloaded is the file of
\* the rubric whose ownership it verified, and lies in the caller's folder.
C15_DownloadsVerifiedFile ==
    \A r \in RubricInvocations :
        r.fileData # NoPath
            => /\ r.fileData = r.rubric.file_path
               /\ r.fileData.folder = r.caller

\* the positions of process-rubric before the update of the rubric
Gates == {"request", "rateLimit", "authorize", "listFile", "download", "extract", "callAI"}

\* the step delivers an error response of process-rubric
RubricFails(r) ==
    /\ TookRubric(r)
    /\ \E d \in BagToSet(rubricInv') : d.pc = "done" /\ ~d.resp.success /\ BecameRubric(d)

\* C18: every step of process-rubric up to and including the AI call, and
\* every step by which an invocation returns an error (rate limit exceeded,
\* rubric not found or not owned, file not found, too large or unreadable,
\* text not extracted, AI call failed), leaves the rubrics and the focus
\* profiles as they are: an invocation that fails has written nothing.
C18_FailureWritesNothing ==
    [][\A r \in RubricInvocations :
          (TookRubric(r) /\ (r.pc \in Gates \/ RubricFails(r)))
              => rubrics' = rubrics /\ focus_profiles' = focus_profiles]_vars

\* the owner's second request for rubric r2 failed at the AI call, the first
\* at the download: the criteria and the focus profiles are the stored ones
C18_Witness ==
    /\ \E d \in RubricInvocations :
         d.pc = "done" /\ d.rubricId = "r2" /\ d.caller = "u2" /\ d.resp.line = 373
    /\ \E d \in RubricInvocations :
         d.pc = "done" /\ d.rubricId = "r2" /\ d.caller = "u2" /\ d.resp.line = 196
    /\ rubrics = RubricRows
    /\ focus_profiles = FocusProfileRows

\* C19: the criteria of a rubric are replaced, and a default focus profile is
\* added, only by an invocation whose AI reply passed aiResponseSchema; an
\* invocation whose reply did not pass it does not reach the update.
C19_OnlyValidatedCriteriaStored ==
    [][\A r \in RubricInvocations :
          (TookRubric(r) /\ (rubrics' # rubrics \/ focus_profiles' # focus_profiles))
              => r.validated]_vars

\* the focus profiles of rubric rid that are marked as default
DefaultsOf(rid) ==
    {p \in DOMAIN focus_profiles :
        focus_profiles[p].rubric_id = rid /\ focus_profiles[p].is_default}

\* C20: after any sequence of process-rubric invocations a rubric has at
\* most one focus profile with is_default = true.
C20_AtMostOneDefaultProfile ==
    \A rid \in DOMAIN rubrics : Cardinality(DefaultsOf(rid)) <= 1

\* C14: in both pipelines the step after the listing either returns
\* NOT_FOUND (listing failed, file absent) or FILE_TOO_LARGE without a
\* download, or goes on to the download with a listed size within the cap
\* (10 MB for submissions, 5 MB for rubrics); the download is invoked only by
\* an invocation that arrived there in this way.
C14_DownloadAfterSizeCheck ==
    [][/\ \A r \in Invocations :
            /\ (Took(r) /\ r.pc = "listFile")
                  => \/ \E r2 \in BagToSet(inv') :
                          /\ Returned(r2)
                          /\ r2 = [r EXCEPT !.pc = "download", !.fileSize = r2.fileSize]
                          /\ r2.fileSize <= MAX_FILE_SIZE
                     \/ Returned(Done(r, Response(404, "NOT_FOUND", 163)))
                     \/ Returned(Done(r, Response(404, "NOT_FOUND", 176)))
                     \/ Returned(Done(r, Response(400, "FILE_TOO_LARGE", 191)))
            /\ (Took(r) /\ r.pc # "listFile")
                  => \A r2 \in BagToSet(inv') : Returned(r2) => r2.pc # "download"
            /\ (Took(r) /\ r.pc = "download") => r.fileSize <= MAX_FILE_SIZE
       /\ \A r \in RubricInvocations :
            /\ (TookRubric(r) /\ r.pc = "listFile")
                  => \/ \E r2 \in BagToSet(rubricInv') :
                          /\ BecameRubric(r2)
                          /\ r2 = [r EXCEPT !.pc = "download", !.fileSize = r2.fileSize]
                          /\ r2.fileSize <= RubricMaxFileSize
                     \/ BecameRubric(RubricDone(r, RubricResponse(404, "NOT_FOUND", 165)))
                     \/ BecameRubric(RubricDone(r, RubricResponse(404, "NOT_FOUND", 173)))
                     \/ BecameRubric(RubricDone(r, RubricResponse(400, "FILE_TOO_LARGE", 183)))
            /\ (TookRubric(r) /\ r.pc # "listFile")
                  => \A r2 \in BagToSet(rubricInv') : BecameRubric(r2) => r2.pc # "download"
            /\ (TookRubric(r) /\ r.pc = "download") => r.fileSize <= RubricMaxFileSize]_vars

\* a submission of exactly 10 MB is about to be downloaded, and a request for
\* a rubric file above 5 MB has been answered FILE_TOO_LARGE
C14_Witness ==
    /\ \E r \in Invocations : r.pc = "download" /\ r.fileSize = MAX_FILE_SIZE
    /\ \E d \in RubricInvocations :
         d.pc = "done" /\ d.resp.error = "FILE_TOO_LARGE" /\ d.resp.status = 400

\* the positions of a handler at which no ownership check of the request has
\* succeeded yet
BeforeOwnership == {"request"}
RubricBeforeOwnership == {"request", "rateLimit", "authorize"}

Absent(table, id) == id \notin DOMAIN table

\* ... or a row that exists and belongs to another user
Foreign(table, id, caller) == id \in DOMAIN table /\ table[id].user_id # caller

\* C17: at the ownership check of either pipeline a request that names a row
\* that does not exist and a request that names another user's row get the
\* same response, 403 with the NOT_FOUND body from the same return
\* statement, and in both cases every table is left as it is.
C17_AbsentAndForeignAlike ==
    [][/\ \A r \in Invocations :
            (/\ Took(r) /\ r.pc = "request" /\ r.body = "valid" /\ r.caller # NoAuth
             /\ \/ Absent(submissions, r.submissionId)
                \/ Foreign(submissions, r.submissionId, r.caller))
                => \E d \in BagToSet(inv') :
                      /\ Returned(d) /\ d.pc = "done"
                      /\ d.resp = Response(403, "NOT_FOUND", 84)
       /\ \A r \in RubricInvocations :
            (/\ TookRubric(r) /\ r.pc = "authorize"
             /\ \/ Absent(rubrics, r.rubricId)
                \/ Foreign(rubrics, r.rubricId, r.caller))
                => \E d \in BagToSet(rubricInv') :
                      /\ BecameRubric(d) /\ d.pc = "done"
                      /\ d.resp = RubricResponse(403, "NOT_FOUND", 147)
       /\ (\E r \in RubricInvocations : TookRubric(r) /\ r.pc = "authorize")
             => Tables' = Tables /\ rate_limits' = rate_limits]_vars

\* the teacher has asked for a rubric that does not exist and for another
\* user's rubric; the two responses are equal
C17_Witness ==
    \E d1, d2 \in RubricInvocations :
        /\ d1.pc = "done" /\ d2.pc = "done"
        /\ d1.caller = "u1" /\ d2.caller = "u1"
        /\ d1.rubricId = NoRubric /\ d2.rubricId = "r2"
        /\ d1.resp.status = 403 /\ d1.resp = d2.resp

\* C21: the step of process-rubric that inserts the default focus profile
\* always answers with success and the extracted criteria and leaves the
\* rubrics as they are, also when the insert fails and no profile is added.
C21_ProfileFailureNotFatal ==
    [][\A r \in RubricInvocations :
          (TookRubric(r) /\ r.pc = "insertProfile")
              => /\ BecameRubric(RubricDone(r, RubricSuccess(r.criteria)))
                 /\ rubrics' = rubrics]_vars

\* the extraction for the uploaded rubric r3 returned success with two
\* criteria, which the rubric holds, and r3 has no default profile: the
\* insert had failed
C21_Witness ==
    /\ \E d \in RubricInvocations :
         /\ d.pc = "done" /\ d.rubricId = "r3" /\ d.resp.success
         /\ Len(d.resp.criteria) = 2
         /\ rubrics[d.rubricId].criteria = d.resp.criteria
    /\ DefaultsOf("r3") = {}

\* C29: a default focus profile selects, at the moment it is inserted, only
\* ids of criteria that its rubric holds.
C29_DefaultProfileWithinRubric ==
    [][\A p \in DOMAIN focus_profiles' \ DOMAIN focus_profiles :
          LET row == focus_profiles'[p]
          IN  /\ row.rubric_id \in DOMAIN rubrics'
              /\ row.selected_criteria \subseteq CriteriaIds(rubrics'[row.rubric_id].criteria)]_vars

\* ------------------------------------------------ failing status writes
\* the error responses of the exits that follow the await at position pc
ErrorsAt(pc) ==
    CASE pc = "fetchProfile" -> {Response(403, "NOT_FOUND", 116)}
      [] pc = "fetchRubric"  -> {Response(403, "NOT_FOUND", 136)}
      [] pc = "listFile"     -> {Response(404, "NOT_FOUND", 163),
                                 Response(404, "NOT_FOUND", 176),
                                 Response(400, "FILE_TOO_LARGE", 191)}
      [] pc = "download"     -> {Response(500, "PROCESSING_FAILED", 209)}
      [] pc = "extract"      -> {Response(500, "PROCESSING_FAILED", 274),
                                 Response(400, "EXTRACTION_FAILED", 291),
                                 Response(500, "PROCESSING_FAILED", 554)}
      [] pc = "callAI"       -> {Response(429, "AI_ERROR", 434),
                                 Response(402, "AI_ERROR", 441),
                                 Response(500, "AI_ERROR", 447),
                                 Response(500, "PROCESSING_FAILED", 554)}
      [] pc = "validate"     -> {Response(500, "AI_ERROR", 470),
                                 Response(500, "AI_ERROR", 482),
                                 Response(500, "PROCESSING_FAILED", 554)}
      [] pc = "insert"       -> {Response(500, "PROCESSING_FAILED", 514)}
      [] OTHER               -> {}

\* the step is an error return of r on which the write of `error` had no effect
ErrorWriteLost(r) ==
    /\ ErrorsAt(r.pc) # {}
    /\ Took(r)
    /\ \E d \in BagToSet(inv') : d.pc = "done" /\ Returned(d) /\ d.resp.status # 200
    /\ r.submissionId \in DOMAIN submissions
    /\ StatusOf(r.submissionId) # "error"
    /\ submissions' = submissions

\* C26: on an error path whose write of status `error` fails, the caller still
\* gets the response of the error that was being reported
C26_ErrorResponseSurvivesFailedWrite ==
    [][\A r \in Invocations :
          ErrorWriteLost(r)
              => \E d \in BagToSet(inv') :
                    /\ Returned(d)
                    /\ d.resp \in ErrorsAt(r.pc)
                    /\ d = Done(r, d.resp)]_vars

\* the only invocation there ever was returned FILE_TOO_LARGE, and the
\* submission is still processing: its write of `error` failed
C26_Witness ==
    /\ BagCardinality(inv) = 1
    /\ \E d \in Invocations :
          /\ d.pc = "done"
          /\ d.resp = Response(400, "FILE_TOO_LARGE", 191)
          /\ d.submissionId \in DOMAIN submissions
          /\ StatusOf(d.submissionId) = "processing"

\* ------------------------------------------------- the minimum text length
\* C22: text shorter than the minimum is rejected before the AI call, for
\* every file type: an invocation of either handler that stands at its AI
\* call holds a text of at least the minimum length
C22_ShortTextRejected ==
    /\ \A r \in Invocations : r.pc = "callAI" => r.textLength >= MinExtractedLen
    /\ \A r \in RubricInvocations : r.pc = "callAI" => r.fileText >= MinRubricText

\* --------------------------------------------------- the selected criteria
\* the positions of the rubric's criteria whose id the profile selects
SelectedPositions(allCriteria, selected) ==
    {j \in 1..Len(allCriteria) : allCriteria[j].id \in selected}

\* C27: the criteria an invocation grades against are exactly the criteria of
\* the rubric whose id is in the profile's selected_criteria, in the rubric's
\* order; an id of the profile that the rubric does not hold adds no entry
\* and no weight
C27_SelectedCriteriaAreRubricCriteria ==
    \A r \in Invocations :
        r.pc \in {"listFile", "download", "extract", "callAI", "validate"}
            => LET allCriteria == rubrics[r.focusProfile.rubric_id].criteria
                   selected    == r.focusProfile.selected_criteria
                   kept        == SelectedPositions(allCriteria, selected)
               IN  /\ Len(r.selectedCriteria) = Cardinality(kept)
                   /\ \A k \in 1..Len(r.selectedCriteria) :
                         /\ r.selectedCriteria[k].id \in selected
                         /\ \E j \in kept : allCriteria[j] = r.selectedCriteria[k]
                   /\ \A j \in kept :
                         \E k \in 1..Len(r.selectedCriteria) :
                            r.selectedCriteria[k] = allCriteria[j]
                   /\ \A k, l \in 1..Len(r.selectedCriteria) :
                         k < l => \E i, j \in kept :
                                     /\ i < j
                                     /\ allCriteria[i] = r.selectedCriteria[k]
                                     /\ allCriteria[j] = r.selectedCriteria[l]

\* an invocation whose profile names only an id the rubric does not hold has
\* passed the filter without an error and stands at the grading call with
\* no criterion selected
C27_Witness ==
    \E r \in Invocations :
        /\ r.pc = "callAI"
        /\ r.focusProfile.selected_criteria = {"c9"}
        /\ r.selectedCriteria = <<>>
        /\ SumWeight(r.selectedCriteria) = 0

\* ------------------------------------------- the first side effect of grading
\* the positions after the processing write: the lookups, the storage
\* listing and download, the extraction, the AI call, the insert
AfterProcessing ==
    {"fetchProfile", "fetchRubric", "listFile", "download", "extract", "callAI",
     "validate", "insert", "setGraded"}

\* C25: in grading the write of status `processing` is the first side effect:
\* the ownership check writes nothing and hands over to the write only for a
\* row of the caller; the next step of the invocation is the write itself;
\* the storage listing, the download, the AI call and the Result insert are
\* reached only through it.
C25_ProcessingIsFirstSideEffect ==
    [][\A r \in Invocations :
          Took(r)
              => \A r2 \in BagToSet(inv') :
                    Returned(r2)
                        => /\ r.pc = "request"
                                => /\ Tables' = Tables
                                   /\ r2.pc \in {"done", "setProcessing"}
                                   /\ r2.pc = "setProcessing"
                                         => /\ r.submissionId \in DOMAIN submissions
                                            /\ submissions[r.submissionId].user_id = r.caller
                           /\ r.pc = "setProcessing"
                                => /\ r2.pc = "fetchProfile"
                                   /\ submissions' = [submissions EXCEPT
                                                         ![r.submissionId].status = "processing"]
                                   /\ results' = results
                           /\ r2.pc \in AfterProcessing
                                => r.pc \in AfterProcessing \cup {"setProcessing"}
                           /\ results' # results => r.pc = "insert"]_vars

\* the only invocation has made the processing write and nothing else: it
\* stands at the first lookup, and there is no result
C25_Witness ==
    /\ BagCardinality(inv) = 1
    /\ results = EmptyBag
    /\ \E r \in Invocations :
          /\ r.pc = "fetchProfile"
          /\ r.submissionId \in DOMAIN submissions
          /\ StatusOf(r.submissionId) = "processing"

C28_OtherSubmissionsUntouched ==
    [][\A r \in Invocations :
          Took(r)
              => /\ \A s \in DOMAIN submissions :
                       s # r.submissionId
                           => /\ s \in DOMAIN submissions'
                              /\ submissions'[s] = submissions[s]
                              /\ ResultsOf(results', s) = ResultsOf(results, s)
                 /\ \A row \in BagToSet(results') :
                       CopiesIn(row, results') > CopiesIn(row, results)
                           => row.submission_id = r.submissionId]_vars

\* the two papers of a bulk upload are graded side by side: one is graded
\* and has its result, while the invocation for the other stands at the
\* grading call with its paper in processing and without a result
C28_Witness ==
    /\ DOMAIN submissions = BulkPapers
    /\ StatusOf("essay") = "graded"
    /\ BagCardinality(ResultsOf(results, "essay")) = 1
    /\ StatusOf("report") = "processing"
    /\ BagCardinality(ResultsOf(results, "report")) = 0
    /\ \E r \in Invocations : r.pc = "callAI" /\ r.submissionId = "report"

\* ------------------------------------------------------------ truncation
\* C23: truncating an already truncated text again with the same bound
\* returns it unchanged
C23_TruncationIdempotent ==
    [][pass >= 1
          => /\ processedText = truncate(submissionText, maxLength)
             /\ processedText' = processedText]_vars

\* a text longer than the bound was truncated, and the truncated text was
\* truncated again
C23_Witness ==
    /\ pass = 2
    /\ Len(submissionText) > maxLength
    /\ Len(processedText) > maxLength
    /\ processedText # submissionText

====
